---- MODULE Spec2Model ----
(***************************************************************************)
(* The one-way Drive sync daemon of src/drive_sync.py: main's scan/sleep   *)
(* loop, scan_and_sync's walk of MOUNT_DIR/notes, ensure_drive_path's      *)
(* top-down folder resolution and upload_or_update's create-or-update      *)
(* decision, against a remote store whose every call may raise HttpError.  *)
(* One daemon step is one remote call (or the bookkeeping around it); the  *)
(* local tree is edited by the user between any two steps.                 *)
(***************************************************************************)
EXTENDS Integers, Sequences, FiniteSets, TLC

\* ------------------------------------------------------------- bounds
\* HttpErrors the remote store raises over a run.
MaxFailures == 1
\* Daemon processes started over a run (sessions).
MaxSessions == 2
\* Edits the user makes to the local tree over a run.
MaxEdits == 2
\* Highest content version a local file reaches (1 = as created).
MaxVersion == 2
\* Remote objects the store can hold.
MaxObjects == 6
\* Processes the launcher spawns over a run.
MaxPids == 6

\* ------------------------------------------------------- local paths
\* Relative paths (to MOUNT_DIR) as sequences of segments.  All scanned
\* files live under MOUNT_DIR/notes.
NotesDir == <<"notes">>
SubDir == <<"notes", "sub">>
\* notes/r, notes/sub/d, and a plain file notes/sub (it cannot coexist
\* locally with the directory notes/sub).
Paths == { <<"notes", "r">>, <<"notes", "sub", "d">>, <<"notes", "sub">> }

\* os.path.dirname / the file name of a relative path.
DirName(p) == SubSeq(p, 1, Len(p) - 1)
BaseName(p) == p[Len(p)]

IsPrefix(d, p) == Len(d) < Len(p) /\ SubSeq(p, 1, Len(d)) = d

\* DRIVE_FOLDER_ID, the id of the remote root; remote ids are 1, 2, ...
DRIVE_FOLDER_ID == 0
\* Python's None for "no such remote object".
None == -1

VARIABLES
  local,        \* local tree: path -> content version, 0 = no such file
  remote,       \* remote store: sequence of objects, id = index
  pc,           \* where the daemon process is
  exc,          \* the exception that ended the last daemon process
  uploaded,     \* main's `uploaded` set (session sync record)
  todo,         \* files of the directory os.walk is in, still to visit
  dirsLeft,     \* directories os.walk has still to descend into
  cur,          \* rel_path of the file being reconciled
  seg,          \* ensure_drive_path: index of the segment p in parts
  parent,       \* ensure_drive_path: `parent`; then drive_parent
  existing,     \* upload_or_update: id found by find_drive_file, or None
  media,        \* upload_or_update: content held by the opened media
  failures,     \* HttpErrors raised so far
  sessions,     \* daemon processes started so far
  edits,        \* local edits made so far
  \* ---- observations of the run (never read by the daemon's code)
  result,       \* path -> outcome of its latest reconcile this session
  synced,       \* paths whose reconcile ended Uploaded/Updated this session
  calls,        \* remote calls issued in the current cycle
  cycleErrs,    \* an HttpError was raised in the current cycle
  localChanged, \* the local tree was edited since the current cycle began
  startedEmpty, \* the current cycle began with empty remote and empty record
  prevClean,    \* the previous cycle of this session ran with no error and no edit
  credChecked,  \* the credential was checked since the previous cycle ended
  cycles,       \* completed cycles this session, saturating at 2
  mkdirCalls,   \* directory -> create_folder calls for it this session
  resolved,     \* directory -> ids ensure_drive_path returned for it this session
  resolveCount, \* directory -> completed resolutions this session, saturating at 2
  \* ---- the launcher (src/cli.py) and the processes it spawns
  lpc,          \* the cli command step in progress, "idle" between commands
  spc,          \* where stop_process is, "none" outside it
  pidfile,      \* PID_SYNC / PID_MYFS: the pid each file holds, 0 = no file
  spawned,      \* what each spawned process runs ("sync" or "myfs"), pid = index
  alive,        \* pids of the running processes
  stopFile,     \* stop_process: its pidfile argument, "none" before any call
  stopPid,      \* stop_process: `pid`
  \* ---- observations of stop_process
  sent,         \* the signals the current (or last) stop_process call sent
  stopLive,     \* the pid it read named a running process
  survived      \* the process was running after the grace wait

daemonVars == <<pc, exc, uploaded, todo, dirsLeft, cur, seg, parent, existing, media>>
budgetVars == <<failures, sessions, edits>>
obsVars == <<result, synced, calls, cycleErrs, localChanged, startedEmpty,
             prevClean, credChecked, cycles, mkdirCalls, resolved, resolveCount>>
launcherVars == <<lpc, spc, pidfile, spawned, alive, stopFile, stopPid, sent, stopLive, survived>>
coreVars == <<local, remote, daemonVars, budgetVars, obsVars>>
vars == <<coreVars, launcherVars>>

Dirs == { DirName(p) : p \in Paths } \cup { NotesDir }

LocalFiles == { p \in Paths : local[p] > 0 }

\* A local tree: no file is also a directory on the way to another file.
ValidTree(t) == \A p \in Paths, q \in Paths : (t[p] > 0 /\ t[q] > 0) => ~IsPrefix(p, q)

Sat2(n) == IF n >= 2 THEN 2 ELSE n + 1

\* ------------------------------------------------------ remote store
Ids == 1 .. Len(remote)

\* The folder lookup with the parent left at the root for every segment.
ChildFolderMatches_RootOnly(par, name) ==
  { i \in Ids : remote[i].kind = "folder" /\ remote[i].parent = DRIVE_FOLDER_ID
                /\ remote[i].name = name }

\* The folder lookup that never finds the folder.
ChildFolderMatches_Never(par, name) == {}

\* files().list with the folder mimeType filter: the ids that match.
ChildFolderMatches(par, name) ==
  { i \in Ids : remote[i].kind = "folder" /\ remote[i].parent = par /\ remote[i].name = name }

\* The file lookup that never finds the existing object.
DriveFileMatches_Never(par, name) == {}

\* files().list of find_drive_file: parent and name only, any mimeType.
DriveFileMatches(par, name) ==
  { i \in Ids : remote[i].parent = par /\ remote[i].name = name }

\* Folder metadata that names the root as the parent of every folder.
FolderMetadata_UnderRoot(par, name) ==
  [kind |-> "folder", parent |-> DRIVE_FOLDER_ID, name |-> name, content |-> 0]

\* The metadata create_folder sends.
FolderMetadata(par, name) == [kind |-> "folder", parent |-> par, name |-> name, content |-> 0]

\* The metadata and media upload_or_update sends for a new file.
FileMetadata(par, name, body) == [kind |-> "file", parent |-> par, name |-> name, content |-> body]

\* files().update(fileId, media_body): the object keeps id, parent and name.
UpdatedStore(id, body) == [remote EXCEPT ![id].content = body]

\* The bytes the opened media yields when the upload runs.
MediaBody == IF local[cur] > 0 THEN local[cur] ELSE media

\* ------------------------------------------------------- the daemon
\* The membership test that never skips.
InSyncRecord_Never(p) == FALSE

\* `rel_path in uploaded_set`
InSyncRecord(p) == p \in uploaded

\* The record left without the reconciled path.
RecordAdd_Forgotten(p) == uploaded

\* The record that keeps only the path just added.
RecordAdd_Replaces(p) == {p}

\* `uploaded_set.add(rel_path)`
RecordAdd(p) == uploaded \cup {p}

\* `parts = rel_dir.strip("/").split("/")`
Parts(p) == DirName(p)

NoObs == [p \in Paths |-> "None"]
ZeroDirs == [d \in Dirs |-> 0]
NoIds == [d \in Dirs |-> {}]

Init ==
  /\ local \in { t \in [Paths -> {0, 1}] : ValidTree(t) }
  /\ remote = <<>>
  /\ pc = "off"
  /\ exc = "none"
  /\ uploaded = {}
  /\ todo = {}
  /\ dirsLeft = {}
  /\ cur = NotesDir
  /\ seg = 1
  /\ parent = DRIVE_FOLDER_ID
  /\ existing = None
  /\ media = 0
  /\ failures = 0
  /\ sessions = 0
  /\ edits = 0
  /\ result = NoObs
  /\ synced = {}
  /\ calls = 0
  /\ cycleErrs = FALSE
  /\ localChanged = FALSE
  /\ startedEmpty = FALSE
  /\ prevClean = FALSE
  /\ credChecked = FALSE
  /\ cycles = 0
  /\ mkdirCalls = ZeroDirs
  /\ resolved = NoIds
  /\ resolveCount = ZeroDirs
  /\ lpc = "idle"
  /\ spc = "none"
  /\ pidfile = [sync |-> 0, myfs |-> 0]
  /\ spawned = <<>>
  /\ alive = {}
  /\ stopFile = "none"
  /\ stopPid = 0
  /\ sent = <<>>
  /\ stopLive = FALSE
  /\ survived = FALSE

walkVars == <<todo, dirsLeft, cur>>
callVars == <<seg, parent, existing, media>>
cycleObs == <<startedEmpty, prevClean, credChecked>>
resolveObs == <<mkdirCalls, resolved, resolveCount>>

\* The memory of a process that is not running: nothing of a session
\* outlives its process.
FreshMemory ==
  /\ uploaded' = {}
  /\ todo' = {}
  /\ dirsLeft' = {}
  /\ cur' = NotesDir
  /\ seg' = 1
  /\ parent' = DRIVE_FOLDER_ID
  /\ existing' = None
  /\ media' = 0

FreshObs ==
  /\ result' = NoObs
  /\ synced' = {}
  /\ calls' = 0
  /\ cycleErrs' = FALSE
  /\ localChanged' = FALSE
  /\ startedEmpty' = FALSE
  /\ prevClean' = FALSE
  /\ credChecked' = FALSE
  /\ cycles' = 0
  /\ mkdirCalls' = ZeroDirs
  /\ resolved' = NoIds
  /\ resolveCount' = ZeroDirs

\* main() that builds the service without looking at the credential.
MainStart_NoCredCheck ==
  /\ pc = "off"
  /\ sessions < MaxSessions
  /\ sessions' = sessions + 1
  /\ pc' = "cycle"
  /\ exc' = "none"
  /\ uploaded' = {}
  /\ credChecked' = FALSE
  /\ UNCHANGED <<launcherVars, local, remote, walkVars, callVars, failures, edits,
                 result, synced, calls, cycleErrs, localChanged, startedEmpty,
                 prevClean, cycles, resolveObs>>

\* main(): build_drive_service tests `creds.valid` and refreshes or obtains
\* the credential, `uploaded = set()`, enter the loop.
MainStart ==
  /\ pc = "off"
  /\ sessions < MaxSessions
  /\ sessions' = sessions + 1
  /\ pc' = "cycle"
  /\ exc' = "none"
  /\ uploaded' = {}
  /\ credChecked' = TRUE
  /\ UNCHANGED <<launcherVars, local, remote, walkVars, callVars, failures, edits,
                 result, synced, calls, cycleErrs, localChanged, startedEmpty,
                 prevClean, cycles, resolveObs>>

\* main(): build_drive_service raises (no credential obtainable); the
\* process ends before the loop is entered.
MainStartFails ==
  /\ pc = "off"
  /\ sessions < MaxSessions
  /\ failures < MaxFailures
  /\ sessions' = sessions + 1
  /\ failures' = failures + 1
  /\ exc' = "StartupError"
  /\ UNCHANGED <<launcherVars, local, remote, pc, uploaded, walkVars, callVars, edits, obsVars>>

\* An exception nothing catches leaves scan_and_sync and main: the process dies.
Uncaught(e) ==
  /\ pc' = "off"
  /\ exc' = e
  /\ FreshMemory
  /\ FreshObs

\* scan_and_sync: MOUNT_DIR/notes does not exist, return at once; main sleeps.
ScanNoNotes ==
  /\ pc = "cycle"
  /\ LocalFiles = {}
  /\ pc' = "sleep"
  /\ calls' = 0
  /\ cycleErrs' = FALSE
  /\ localChanged' = FALSE
  /\ startedEmpty' = (remote = <<>> /\ uploaded = {})
  /\ prevClean' = (cycles >= 1 /\ ~cycleErrs /\ ~localChanged)
  /\ UNCHANGED credChecked
  /\ cycles' = Sat2(cycles)
  /\ UNCHANGED <<launcherVars, local, remote, exc, uploaded, walkVars, callVars, budgetVars,
                 result, synced, resolveObs>>

\* The sub-directories of d that os.walk lists (a directory exists locally
\* exactly when a file lies below it).
SubDirsOf(d) == { e \in Dirs : DirName(e) = d /\ \E p \in LocalFiles : IsPrefix(e, p) }
FilesOf(d) == { p \in LocalFiles : DirName(p) = d }

\* scan_and_sync: os.walk lists MOUNT_DIR/notes.
ScanStart ==
  /\ pc = "cycle"
  /\ LocalFiles # {}
  /\ pc' = "walk"
  /\ todo' = FilesOf(NotesDir)
  /\ dirsLeft' = SubDirsOf(NotesDir)
  /\ calls' = 0
  /\ cycleErrs' = FALSE
  /\ localChanged' = FALSE
  /\ startedEmpty' = (remote = <<>> /\ uploaded = {})
  /\ prevClean' = (cycles >= 1 /\ ~cycleErrs /\ ~localChanged)
  /\ UNCHANGED credChecked
  /\ UNCHANGED <<launcherVars, local, remote, exc, uploaded, cur, callVars, budgetVars,
                 result, synced, cycles, resolveObs>>

\* `if rel_path in uploaded_set: continue`
Skip(p) ==
  /\ pc = "walk"
  /\ p \in todo
  /\ InSyncRecord(p)
  /\ todo' = todo \ {p}
  /\ cur' = p
  /\ result' = [result EXCEPT ![p] = "Skipped"]
  /\ UNCHANGED <<launcherVars, local, remote, pc, exc, uploaded, dirsLeft, callVars, budgetVars,
                 synced, calls, cycleErrs, localChanged, cycleObs, cycles, resolveObs>>

\* A path not in the record: ensure_drive_path(rel_dir) starts at the root.
BeginReconcile(p) ==
  /\ pc = "walk"
  /\ p \in todo
  /\ ~InSyncRecord(p)
  /\ todo' = todo \ {p}
  /\ cur' = p
  /\ seg' = 1
  /\ parent' = DRIVE_FOLDER_ID
  /\ pc' = IF Parts(p) = <<>> THEN "find" ELSE "resolve"
  /\ UNCHANGED <<launcherVars, local, remote, exc, uploaded, dirsLeft, existing, media, budgetVars, obsVars>>

\* os.walk descends into the next directory and lists it.
WalkDir(d) ==
  /\ pc = "walk"
  /\ todo = {}
  /\ d \in dirsLeft
  /\ todo' = FilesOf(d)
  /\ dirsLeft' = (dirsLeft \ {d}) \cup SubDirsOf(d)
  /\ UNCHANGED <<launcherVars, local, remote, pc, exc, uploaded, cur, callVars, budgetVars, obsVars>>

\* os.walk is exhausted: scan_and_sync returns and main sleeps.
ScanDone ==
  /\ pc = "walk"
  /\ todo = {}
  /\ dirsLeft = {}
  /\ pc' = "sleep"
  /\ cycles' = Sat2(cycles)
  /\ cur' = NotesDir
  /\ UNCHANGED <<launcherVars, local, remote, exc, uploaded, todo, dirsLeft, callVars, budgetVars,
                 result, synced, calls, cycleErrs, localChanged, cycleObs, resolveObs>>

\* time.sleep(SYNC_INTERVAL) returns: next iteration of `while True`, which
\* calls scan_and_sync with the same service object and no credential test.
Wake ==
  /\ pc = "sleep"
  /\ pc' = "cycle"
  /\ credChecked' = FALSE
  /\ UNCHANGED <<launcherVars, local, remote, exc, uploaded, walkVars, callVars, budgetVars,
                 result, synced, calls, cycleErrs, localChanged, startedEmpty,
                 prevClean, cycles, resolveObs>>

\* --------------------------------------------------- ensure_drive_path
\* The directory whose folder the loop is resolving: parts[1..seg].
SegDir == SubSeq(Parts(cur), 1, seg)
SegName == Parts(cur)[seg]

\* The loop that never reassigns `parent`.
Advance_KeepsParent(id) ==
  /\ parent' = parent
  /\ IF seg = Len(Parts(cur))
       THEN /\ pc' = "find"
            /\ seg' = seg
            /\ resolved' = [resolved EXCEPT ![Parts(cur)] = @ \cup {parent}]
            /\ resolveCount' = [resolveCount EXCEPT ![Parts(cur)] = Sat2(@)]
       ELSE /\ pc' = "resolve"
            /\ seg' = seg + 1
            /\ UNCHANGED <<resolved, resolveCount>>

\* `parent = found if found else create_folder(...)`, then the next
\* segment, or `return parent` after the last one.
Advance(id) ==
  /\ parent' = id
  /\ IF seg = Len(Parts(cur))
       THEN /\ pc' = "find"
            /\ seg' = seg
            /\ resolved' = [resolved EXCEPT ![Parts(cur)] = @ \cup {id}]
            /\ resolveCount' = [resolveCount EXCEPT ![Parts(cur)] = Sat2(@)]
       ELSE /\ pc' = "resolve"
            /\ seg' = seg + 1
            /\ UNCHANGED <<resolved, resolveCount>>

\* find_child_folder returns files[0]["id"]: the store's first match.
FindChildFolderFound ==
  /\ pc = "resolve"
  /\ \E id \in ChildFolderMatches(parent, SegName) : Advance(id)
  /\ calls' = calls + 1
  /\ UNCHANGED <<launcherVars, local, remote, exc, uploaded, walkVars, existing, media, budgetVars,
                 result, synced, cycleErrs, localChanged, cycleObs, cycles, mkdirCalls>>

\* find_child_folder returns None: create_folder is called next.
FindChildFolderAbsent ==
  /\ pc = "resolve"
  /\ ChildFolderMatches(parent, SegName) = {}
  /\ pc' = "mkdir"
  /\ calls' = calls + 1
  /\ UNCHANGED <<launcherVars, local, remote, exc, uploaded, walkVars, callVars, budgetVars,
                 result, synced, cycleErrs, localChanged, cycleObs, cycles, resolveObs>>

\* find_child_folder raises HttpError; ensure_drive_path, scan_and_sync and
\* main (which catches KeyboardInterrupt only) let it through.
FindChildFolderRaises ==
  /\ pc = "resolve"
  /\ failures < MaxFailures
  /\ failures' = failures + 1
  /\ Uncaught("HttpError")
  /\ UNCHANGED <<launcherVars, local, remote, sessions, edits>>

\* create_folder succeeds: the new folder's id becomes `parent`.
CreateFolderOk ==
  /\ pc = "mkdir"
  /\ Len(remote) < MaxObjects
  /\ remote' = Append(remote, FolderMetadata(parent, SegName))
  /\ Advance(Len(remote) + 1)
  /\ calls' = calls + 1
  /\ mkdirCalls' = [mkdirCalls EXCEPT ![SegDir] = @ + 1]
  /\ UNCHANGED <<launcherVars, local, exc, uploaded, walkVars, existing, media, budgetVars,
                 result, synced, cycleErrs, localChanged, cycleObs, cycles>>

\* create_folder raises HttpError: nothing is created, nothing catches it.
CreateFolderRaises ==
  /\ pc = "mkdir"
  /\ failures < MaxFailures
  /\ failures' = failures + 1
  /\ Uncaught("HttpError")
  /\ UNCHANGED <<launcherVars, local, remote, sessions, edits>>

\* ---------------------------------------------------- upload_or_update
\* upload_or_update has returned (it returns nothing, whatever happened)
\* and its locals are gone; scan_and_sync runs `uploaded_set.add(rel_path)`
\* and takes the next file.
Finish(outcome) ==
  /\ uploaded' = RecordAdd(cur)
  /\ seg' = 1
  /\ parent' = DRIVE_FOLDER_ID
  /\ existing' = None
  /\ media' = 0
  /\ pc' = "walk"
  /\ result' = [result EXCEPT ![cur] = outcome]
  /\ synced' = IF outcome \in {"Uploaded", "Updated"} THEN synced \cup {cur} ELSE synced
  /\ cycleErrs' = (cycleErrs \/ outcome = "Failed")

\* MediaFileUpload(local) opens the file: it is gone, and the OSError is
\* not an HttpError.
OpenFails ==
  /\ pc = "find"
  /\ local[cur] = 0
  /\ Uncaught("FileNotFoundError")
  /\ UNCHANGED <<launcherVars, local, remote, budgetVars>>

\* find_drive_file returns files[0]: an object of that name exists.
FindDriveFileFound ==
  /\ pc = "find"
  /\ local[cur] > 0
  /\ \E id \in DriveFileMatches(parent, BaseName(cur)) : existing' = id
  /\ media' = local[cur]
  /\ pc' = "update"
  /\ calls' = calls + 1
  /\ UNCHANGED <<launcherVars, local, remote, exc, uploaded, walkVars, seg, parent, budgetVars,
                 result, synced, cycleErrs, localChanged, cycleObs, cycles, resolveObs>>

\* find_drive_file returns None.
FindDriveFileAbsent ==
  /\ pc = "find"
  /\ local[cur] > 0
  /\ DriveFileMatches(parent, BaseName(cur)) = {}
  /\ existing' = None
  /\ media' = local[cur]
  /\ pc' = "create"
  /\ calls' = calls + 1
  /\ UNCHANGED <<launcherVars, local, remote, exc, uploaded, walkVars, seg, parent, budgetVars,
                 result, synced, cycleErrs, localChanged, cycleObs, cycles, resolveObs>>

\* find_drive_file raises HttpError: caught, "[ERROR]" printed.
FindDriveFileRaises ==
  /\ pc = "find"
  /\ local[cur] > 0
  /\ failures < MaxFailures
  /\ failures' = failures + 1
  /\ Finish("Failed")
  /\ calls' = calls + 1
  /\ UNCHANGED <<launcherVars, local, remote, exc, walkVars, sessions, edits,
                 localChanged, cycleObs, cycles, resolveObs>>

\* files().update(fileId=existing["id"], media_body=media) succeeds.
UpdateFileOk ==
  /\ pc = "update"
  /\ remote' = UpdatedStore(existing, MediaBody)
  /\ Finish("Updated")
  /\ calls' = calls + 1
  /\ UNCHANGED <<launcherVars, local, exc, walkVars, budgetVars,
                 localChanged, cycleObs, cycles, resolveObs>>

\* files().update raises HttpError: caught, "[ERROR]" printed.
UpdateFileRaises ==
  /\ pc = "update"
  /\ failures < MaxFailures
  /\ failures' = failures + 1
  /\ Finish("Failed")
  /\ calls' = calls + 1
  /\ UNCHANGED <<launcherVars, local, remote, exc, walkVars, sessions, edits,
                 localChanged, cycleObs, cycles, resolveObs>>

\* files().create(body=meta, media_body=media) succeeds.
CreateFileOk ==
  /\ pc = "create"
  /\ Len(remote) < MaxObjects
  /\ remote' = Append(remote, FileMetadata(parent, BaseName(cur), MediaBody))
  /\ Finish("Uploaded")
  /\ calls' = calls + 1
  /\ UNCHANGED <<launcherVars, local, exc, walkVars, budgetVars,
                 localChanged, cycleObs, cycles, resolveObs>>

\* files().create raises HttpError: nothing is created; caught.
CreateFileRaises ==
  /\ pc = "create"
  /\ failures < MaxFailures
  /\ failures' = failures + 1
  /\ Finish("Failed")
  /\ calls' = calls + 1
  /\ UNCHANGED <<launcherVars, local, remote, exc, walkVars, sessions, edits,
                 localChanged, cycleObs, cycles, resolveObs>>

\* `except KeyboardInterrupt: print("Stopped.")`: the stop signal ends
\* the loop wherever the process is.
\* The handler placed inside the loop: the interrupt is reported and the
\* loop goes on.
SigInt_InsideLoop ==
  /\ pc # "off"
  /\ pc' = "cycle"
  /\ exc' = "KeyboardInterrupt"
  /\ UNCHANGED <<launcherVars, local, remote, uploaded, walkVars, callVars, budgetVars, obsVars>>

SigInt ==
  /\ pc # "off"
  /\ pc' = "off"
  /\ exc' = "KeyboardInterrupt"
  /\ FreshMemory
  /\ FreshObs
  /\ UNCHANGED <<launcherVars, local, remote, budgetVars>>

\* SIGTERM, the launcher's stop request (cli.py stop_process): the daemon
\* installs no handler for it, so the process ends at once, wherever it is.
SigTerm ==
  /\ pc # "off"
  /\ pc' = "off"
  /\ exc' = "SIGTERM"
  /\ FreshMemory
  /\ FreshObs
  /\ UNCHANGED <<launcherVars, local, remote, budgetVars>>

\* ------------------------------------------------ the user's local tree
Edit(t) ==
  /\ edits < MaxEdits
  /\ ValidTree(t)
  /\ local' = t
  /\ edits' = edits + 1
  /\ localChanged' = TRUE
  /\ UNCHANGED <<launcherVars, remote, daemonVars, failures, sessions, result, synced, calls,
                 cycleErrs, cycleObs, cycles, resolveObs>>

LocalCreate(p) == local[p] = 0 /\ Edit([local EXCEPT ![p] = 1])
LocalModify(p) == local[p] > 0 /\ local[p] < MaxVersion /\ Edit([local EXCEPT ![p] = @ + 1])
LocalDelete(p) == local[p] > 0 /\ Edit([local EXCEPT ![p] = 0])

Next ==
  \/ MainStart
  \/ MainStartFails
  \/ ScanNoNotes
  \/ ScanStart
  \/ \E p \in Paths : Skip(p)
  \/ \E p \in Paths : BeginReconcile(p)
  \/ \E d \in Dirs : WalkDir(d)
  \/ ScanDone
  \/ Wake
  \/ FindChildFolderFound
  \/ FindChildFolderAbsent
  \/ FindChildFolderRaises
  \/ CreateFolderOk
  \/ CreateFolderRaises
  \/ OpenFails
  \/ FindDriveFileFound
  \/ FindDriveFileAbsent
  \/ FindDriveFileRaises
  \/ UpdateFileOk
  \/ UpdateFileRaises
  \/ CreateFileOk
  \/ CreateFileRaises
  \/ SigInt
  \/ SigTerm
  \/ \E p \in Paths : LocalCreate(p)
  \/ \E p \in Paths : LocalModify(p)
  \/ \E p \in Paths : LocalDelete(p)

Spec == Init /\ [][Next]_vars

\* ======================================================= the launcher
\* src/cli.py: mount starts the filesystem process and the sync daemon and
\* records their pids; unmount stops both through stop_process.  Here the
\* two programs are processes that run or do not; commands are issued one
\* at a time, and a process may exit on its own at any moment.

\* read_pid(path): the pid the file holds, None (0) when there is no file.
read_pid(file) == pidfile[file]

\* The liveness probe that always answers "not running".
is_process_running_Never(pid) == FALSE

\* is_process_running(pid): os.kill(pid, 0) finds the process.
is_process_running(pid) == pid \in alive

NoStop ==
  /\ stopPid' = 0
  /\ sent' = <<>>
  /\ stopLive' = FALSE
  /\ survived' = FALSE

\* mount: "Already mounted" when PID_MYFS names a running process,
\* otherwise start_myfs and start_sync follow.
mount ==
  /\ lpc = "idle"
  /\ lpc' = IF read_pid("myfs") # 0 /\ is_process_running(read_pid("myfs"))
              THEN "idle" ELSE "start_myfs"
  /\ stopFile' = "none"
  /\ NoStop
  /\ UNCHANGED <<coreVars, spc, pidfile, spawned, alive>>

\* subprocess.Popen followed by write_pid.
Spawn(kind, file) ==
  /\ Len(spawned) < MaxPids
  /\ spawned' = Append(spawned, kind)
  /\ alive' = alive \cup {Len(spawned) + 1}
  /\ pidfile' = [pidfile EXCEPT ![file] = Len(spawned) + 1]

start_myfs ==
  /\ lpc = "start_myfs"
  /\ Spawn("myfs", "myfs")
  /\ lpc' = "start_sync"
  /\ UNCHANGED <<coreVars, spc, stopFile, stopPid, sent, stopLive, survived>>

start_sync ==
  /\ lpc = "start_sync"
  /\ Spawn("sync", "sync")
  /\ lpc' = "idle"
  /\ UNCHANGED <<coreVars, spc, stopFile, stopPid, sent, stopLive, survived>>

\* unmount: stop_process(PID_SYNC) first.
unmount ==
  /\ lpc = "idle"
  /\ lpc' = "stop_sync"
  /\ spc' = "read"
  /\ stopFile' = "sync"
  /\ NoStop
  /\ UNCHANGED <<coreVars, pidfile, spawned, alive>>

\* stop_process has returned to unmount.
Return ==
  /\ spc' = "none"
  /\ lpc' = IF lpc = "stop_sync" THEN "fusermount" ELSE "idle"

\* stop_process: `pid = read_pid(pidfile)`; `if not pid: return`.
StopRead ==
  /\ spc = "read"
  /\ stopPid' = read_pid(stopFile)
  /\ stopLive' = (read_pid(stopFile) \in alive)
  /\ IF read_pid(stopFile) = 0
       THEN Return
       ELSE spc' = "term" /\ lpc' = lpc
  /\ UNCHANGED <<coreVars, pidfile, spawned, alive, stopFile, sent, survived>>

\* os.kill(pid, SIGTERM).  No such process: the exception is reported and
\* the `finally` clause follows.  The sync daemon has no handler and ends
\* at once; the filesystem process ends when it chooses to.
StopTerm ==
  /\ spc = "term"
  /\ IF stopPid \in alive
       THEN /\ sent' = Append(sent, "SIGTERM")
            /\ alive' = IF spawned[stopPid] = "sync" THEN alive \ {stopPid} ELSE alive
            /\ spc' = "grace"
       ELSE /\ spc' = "unlink"
            /\ UNCHANGED <<sent, alive>>
  /\ UNCHANGED <<coreVars, lpc, pidfile, spawned, stopFile, stopPid, stopLive, survived>>

\* After time.sleep(0.5): `if is_process_running(pid)`.
StopCheck ==
  /\ spc = "grace"
  /\ spc' = IF is_process_running(stopPid) THEN "kill" ELSE "unlink"
  /\ survived' = (stopPid \in alive)
  /\ UNCHANGED <<coreVars, lpc, pidfile, spawned, alive, stopFile, stopPid, sent, stopLive>>

\* os.kill(pid, SIGKILL): the process ends, or was already gone.
StopKill ==
  /\ spc = "kill"
  /\ sent' = IF stopPid \in alive THEN Append(sent, "SIGKILL") ELSE sent
  /\ alive' = alive \ {stopPid}
  /\ spc' = "unlink"
  /\ UNCHANGED <<coreVars, lpc, pidfile, spawned, stopFile, stopPid, stopLive, survived>>

\* `finally: pidfile.unlink()`, then stop_process returns.
StopUnlink ==
  /\ spc = "unlink"
  /\ pidfile' = [pidfile EXCEPT ![stopFile] = 0]
  /\ Return
  /\ UNCHANGED <<coreVars, spawned, alive, stopFile, stopPid, sent, stopLive, survived>>

\* unmount: fusermount -u, then stop_process(PID_MYFS).
fusermount ==
  /\ lpc = "fusermount"
  /\ lpc' = "stop_myfs"
  /\ spc' = "read"
  /\ stopFile' = "myfs"
  /\ NoStop
  /\ UNCHANGED <<coreVars, pidfile, spawned, alive>>

\* A process exits on its own: a crash, the daemon's uncaught exception,
\* the filesystem process reacting to SIGTERM or to the unmount.
ProcExits(pid) ==
  /\ pid \in alive
  /\ alive' = alive \ {pid}
  /\ UNCHANGED <<coreVars, lpc, spc, pidfile, spawned, stopFile, stopPid, sent, stopLive, survived>>

LauncherInit == Init /\ LocalFiles = {}

LauncherNext ==
  \/ mount
  \/ start_myfs
  \/ start_sync
  \/ unmount
  \/ StopRead
  \/ StopTerm
  \/ StopCheck
  \/ StopKill
  \/ StopUnlink
  \/ fusermount
  \/ \E pid \in 1 .. MaxPids : ProcExits(pid)

LauncherSpec == LauncherInit /\ [][LauncherNext]_vars

\* ============================================================ claims
\* What the remote store holds, read off the store itself.
FoldersAt(par, name) ==
  { i \in 1 .. Len(remote) :
      remote[i].kind = "folder" /\ remote[i].parent = par /\ remote[i].name = name }
FilesAt(par, name) ==
  { i \in 1 .. Len(remote) :
      remote[i].kind = "file" /\ remote[i].parent = par /\ remote[i].name = name }
ObjectsAt(par, name) ==
  { i \in 1 .. Len(remote) : remote[i].parent = par /\ remote[i].name = name }

\* The id of the remote folder that mirrors directory d: the chain of
\* folders named by d's segments, nested under the root; None if a link
\* is missing.
RECURSIVE FolderIdOf(_)
FolderIdOf(d) ==
  IF d = <<>> THEN DRIVE_FOLDER_ID
  ELSE LET up == FolderIdOf(DirName(d))
       IN IF up = None \/ FoldersAt(up, BaseName(d)) = {} THEN None
          ELSE CHOOSE i \in FoldersAt(up, BaseName(d)) : TRUE

\* The directories of the local tree.
LocalDirs == { d \in Dirs : \E p \in LocalFiles : IsPrefix(d, p) }

InReconcile == pc \in {"resolve", "mkdir", "find", "update", "create"}

\* C1: a path whose reconcile ended with a remote error is not in the
\* session sync record (so the next cycle does not skip it).
C1_FailedNotRecorded ==
  \A p \in Paths : result[p] = "Failed" => p \notin uploaded

\* C2: once a path's reconcile has ended Uploaded or Updated in this
\* session, the daemon is never again at a remote call for that path, and
\* the only later outcome recorded for it is Skipped.
C2_NoDuplicateUpload ==
  /\ InReconcile => cur \notin synced
  /\ \A p \in synced : result[p] \in {"Uploaded", "Updated", "Skipped"}

\* C2's case: a path synced earlier in the session has been skipped.
C2_Witness ==
  \E p \in synced : result[p] = "Skipped" /\ pc = "sleep" /\ cycles = 2

\* C3: no remote error ends the daemon process.
C3_RemoteErrorNeverHalts ==
  exc # "HttpError"

\* C4: the store never holds two file objects with one (parent, name); a
\* create call is issued only where no object of that name exists, an
\* update call only against an object of that parent and name; a path
\* reported Uploaded has exactly one file object.
C4_CreateVsUpdate ==
  /\ \A i \in 1 .. Len(remote), j \in 1 .. Len(remote) :
       (remote[i].kind = "file" /\ remote[j].kind = "file"
        /\ remote[i].parent = remote[j].parent /\ remote[i].name = remote[j].name) => i = j
  /\ pc = "create" => ObjectsAt(parent, BaseName(cur)) = {}
  /\ pc = "update" => existing \in ObjectsAt(parent, BaseName(cur))
  /\ \A p \in Paths :
       result[p] = "Uploaded" =>
         Cardinality(FilesAt(FolderIdOf(DirName(p)), BaseName(p))) = 1

\* C4's case: in a second session a path was updated in place, and the
\* store holds one file object for it.
C4_Witness ==
  \E p \in Paths :
    /\ sessions = 2
    /\ result[p] = "Updated"
    /\ Cardinality(FilesAt(FolderIdOf(DirName(p)), BaseName(p))) = 1
    /\ Len(remote) = Len(p)

\* C5: at the end of every cycle, a local file that the session record
\* holds (and so will not be attempted again) has an object on the remote.
C5_RetryUntilSuccess ==
  pc = "sleep" =>
    \A p \in uploaded \cap LocalFiles : ObjectsAt(FolderIdOf(DirName(p)), BaseName(p)) # {}

\* C6: after a cycle that ran with no error and no concurrent edit, every
\* local file synced earlier in the session has its current content on
\* the remote (a file modified after its sync has been sent again).
C6_ModifiedFileSentAgain ==
  (pc = "sleep" /\ ~cycleErrs /\ ~localChanged) =>
    \A p \in synced \cap LocalFiles :
      \E i \in ObjectsAt(FolderIdOf(DirName(p)), BaseName(p)) : remote[i].content = local[p]

\* C7: a cycle that follows an error-free cycle of the same session, with
\* no local edit since that cycle began, issues no remote call and skips
\* every local file.
C7_SecondCycleNoCalls ==
  (pc = "sleep" /\ cycles = 2 /\ prevClean /\ ~localChanged) =>
    /\ calls = 0
    /\ \A p \in LocalFiles : result[p] = "Skipped"

C7_Witness ==
  /\ pc = "sleep" /\ cycles = 2 /\ prevClean /\ ~localChanged
  /\ Cardinality(LocalFiles) = 2
  /\ calls = 0

\* C8: one error-free cycle over an unedited local tree, begun with an
\* empty remote and an empty record, leaves exactly the mirror: one folder
\* per local directory, nested as locally, one file object per local file
\* in its directory's folder, nothing else, and the record equal to the
\* set of local files.
C8_FullCycleMirror ==
  (pc = "sleep" /\ startedEmpty /\ ~cycleErrs /\ ~localChanged) =>
    /\ uploaded = LocalFiles
    /\ Len(remote) = Cardinality(LocalDirs) + Cardinality(LocalFiles)
    /\ \A d \in LocalDirs :
         /\ FolderIdOf(DirName(d)) # None
         /\ Cardinality(FoldersAt(FolderIdOf(DirName(d)), BaseName(d))) = 1
    /\ \A p \in LocalFiles :
         /\ FolderIdOf(DirName(p)) # None
         /\ Cardinality(FilesAt(FolderIdOf(DirName(p)), BaseName(p))) = 1
         /\ \A i \in FilesAt(FolderIdOf(DirName(p)), BaseName(p)) : remote[i].content = local[p]

\* C8's case: the tree notes/r, notes/sub/d after its first full cycle.
C8_Witness ==
  /\ pc = "sleep" /\ startedEmpty /\ ~cycleErrs /\ ~localChanged
  /\ LocalFiles = { <<"notes", "r">>, <<"notes", "sub", "d">> }
  /\ Len(remote) = 4

\* C9: while segment seg is looked up or created, `parent` is the folder
\* mirroring the segments before it; create_folder is called only where
\* no folder of that name exists under that parent; and the file lookup,
\* create and update run only once every folder of the file's directory
\* exists, with the last folder's id as the parent.
C9_FolderOrder ==
  /\ pc \in {"resolve", "mkdir"} =>
       /\ parent # None
       /\ parent = FolderIdOf(SubSeq(Parts(cur), 1, seg - 1))
  /\ pc = "mkdir" => FoldersAt(parent, SegName) = {}
  /\ pc \in {"find", "update", "create"} =>
       /\ parent # None
       /\ parent = FolderIdOf(Parts(cur))
  /\ pc = "update" => remote[existing].parent = parent

\* C9's case: notes/sub/d is about to be created under the folder sub,
\* which this reconcile created under notes.
C9_Witness ==
  /\ pc = "create"
  /\ cur = <<"notes", "sub", "d">>
  /\ mkdirCalls[SubDir] = 1
  /\ remote[parent].name = "sub"
  /\ remote[remote[parent].parent].name = "notes"

\* C10: within a session every resolution of a directory returns the
\* same folder id, at most one create_folder call is made per directory,
\* and the store never holds two folders of one name under one parent.
C10_ResolveIdempotent ==
  /\ \A d \in Dirs : Cardinality(resolved[d]) <= 1 /\ mkdirCalls[d] <= 1
  /\ \A i \in 1 .. Len(remote), j \in 1 .. Len(remote) :
       (remote[i].kind = "folder" /\ remote[j].kind = "folder"
        /\ remote[i].parent = remote[j].parent /\ remote[i].name = remote[j].name) => i = j

\* C10's case: a directory resolved twice in one session, created by the
\* first resolution.
C10_Witness ==
  \E d \in Dirs : resolveCount[d] = 2 /\ mkdirCalls[d] = 1

\* C11: a stop request is honoured at the top of a cycle and during the
\* sleep (and anywhere else), and a process that was asked to stop is not
\* running: it starts no further scan cycle.
C11_StopEndsLoop ==
  /\ pc \in {"cycle", "sleep"} => (ENABLED SigInt /\ ENABLED SigTerm)
  /\ exc \in {"KeyboardInterrupt", "SIGTERM"} => (pc = "off" /\ todo = {} /\ dirsLeft = {})

\* C11's case: the daemon was stopped by KeyboardInterrupt after a
\* completed cycle had put a file on the remote.
C11_Witness ==
  /\ exc = "KeyboardInterrupt"
  /\ pc = "off"
  /\ \E i \in 1 .. Len(remote) : remote[i].kind = "file"

SyncDaemons == { pid \in alive : spawned[pid] = "sync" }

C14_VanishedFileNeverHalts ==
  ~(pc = "off" /\ exc = "FileNotFoundError")

\* C15: the object handed to files().update as the existing file is never
\* a folder.
C15_UpdateTargetIsFile ==
  pc = "update" => remote[existing].kind = "file"

\* C16: the session sync record is empty when the daemon starts; while
\* the process runs no step removes a path from it; a step adds at most
\* the path being reconciled, which was taken from the listing of the
\* walk, and the listing holds only files of the local tree.
C16_RecordMonotonic ==
  /\ [][(pc = "off" /\ pc' # "off") => uploaded' = {}]_vars
  /\ [][(pc # "off" /\ pc' # "off") =>
          (uploaded \subseteq uploaded' /\ (uploaded' \ uploaded) \subseteq {cur})]_vars
  /\ [][(pc = "walk" /\ cur' # cur /\ pc' # "off") => (cur' \in todo \/ pc' = "sleep")]_vars
  /\ [][todo' \subseteq todo \/ todo' \subseteq LocalFiles]_vars

\* C16's case: a running session whose record has grown to two paths.
C16_Witness ==
  /\ pc \in {"walk", "sleep"}
  /\ uploaded = { <<"notes", "r">>, <<"notes", "sub", "d">> }
  /\ cycles >= 1

C18_SingleSyncDaemon ==
  /\ Cardinality(SyncDaemons) <= 1
  /\ \A pid \in SyncDaemons : pidfile["sync"] = pid

====
